---- MODULE Spec2Model ----
(***************************************************************************)
(* ColdFront project views: archive, merge, export, import, membership.    *)
(* The database is a function from model label to its table (a set of      *)
(* rows); a row is a record of its concrete fields and many-to-many sets.  *)
(* One action per request handler; each action runs the whole handler.     *)
(***************************************************************************)
EXTENDS Integers, Sequences, FiniteSets, TLC

VARIABLES db, prev, now, form, resp, imp, nreq, infer

vars == << db, prev, now, form, resp, imp, nreq, infer >>

(* ------------------------------ bounds -------------------------------- *)
\* Number of requests served in one behaviour.
MaxRequests == 2

\* Number of forms ticked in one add-users submission.
MaxSelected == 2

\* Number of users handed to InferUsernameFromEmail.
MaxUsers == 3

(* --------------------------- model labels ----------------------------- *)
UserM == "auth.user"
GroupM == "auth.group"
ProfileM == "user.userprofile"
ProjectM == "project.project"
ProjectUserM == "project.projectuser"
PublicationM == "publication.publication"
GrantM == "grant.grant"
ResourceM == "resource.resource"
AllocationM == "allocation.allocation"
AllocationUserM == "allocation.allocationuser"
AllocAttrM == "allocation.allocationattribute"
AllocChangeM == "allocation.allocationchangerequest"
AdminNoteM == "allocation.allocationadminnote"
UserNoteM == "allocation.allocationusernote"
AdminCommentM == "project.projectadmincomment"
UserMessageM == "project.projectusermessage"
ReviewM == "project.projectreview"
ResearchOutputM == "research_output.researchoutput"

\* The models a project export serialises, in the order of serialized_data.
ExportOrder ==
  << ProjectM, UserM, ProfileM, GroupM, ProjectUserM, PublicationM, GrantM,
     ResourceM, AllocationM, AllocationUserM, AllocAttrM, AllocChangeM,
     AdminNoteM, UserNoteM, AdminCommentM, UserMessageM, ReviewM,
     ResearchOutputM >>

Models == { ExportOrder[i] : i \in 1..Len(ExportOrder) }

\* The models _combine_objects is applied to by a merge, in call order.
MergeOrder ==
  << GrantM, PublicationM, ProjectUserM, AllocationM, AdminCommentM,
     UserMessageM, ReviewM, ResearchOutputM >>

\* An unset foreign key (None); primary keys start at 1.
NoPk == 0
\* request.user of a request without a session (AnonymousUser).
Anonymous == 0

(* ------------------------------ schema -------------------------------- *)
\* Foreign-key columns of a model: <<column, referenced model>>.
ForeignKeys(m) ==
  CASE m = ProjectM -> { <<"pi_id", UserM>> }
    [] m = ProfileM -> { <<"user_id", UserM>> }
    [] m = ProjectUserM -> { <<"user_id", UserM>>, <<"project_id", ProjectM>> }
    [] m = ResourceM -> { <<"parent_resource_id", ResourceM>> }
    [] m = AllocationM -> { <<"project_id", ProjectM>> }
    [] m = AllocationUserM -> { <<"user_id", UserM>>, <<"allocation_id", AllocationM>> }
    [] m \in {AllocAttrM, AllocChangeM} -> { <<"allocation_id", AllocationM>> }
    [] m \in {AdminNoteM, UserNoteM} ->
         { <<"allocation_id", AllocationM>>, <<"author_id", UserM>> }
    [] m \in {PublicationM, GrantM, AdminCommentM, UserMessageM, ReviewM,
              ResearchOutputM} -> { <<"project_id", ProjectM>> }
    [] OTHER -> {}

\* Many-to-many fields of a model, in field order: <<field, referenced model>>.
ManyToMany(m) ==
  CASE m = UserM -> << <<"groups", GroupM>> >>
    [] m = ResourceM -> << <<"allowed_groups", GroupM>>, <<"allowed_users", UserM>>,
                           <<"linked_resources", ResourceM>> >>
    [] m = AllocationM -> << <<"resources", ResourceM>> >>
    [] OTHER -> << >>

M2MNames(m) == { ManyToMany(m)[i][1] : i \in 1..Len(ManyToMany(m)) }

\* Fields with unique=True other than id (what _same_obj_exists compares).
UniqueFields(m) ==
  CASE m = UserM -> {"username"}
    [] m = GroupM -> {"name"}
    [] m = ProfileM -> {"user_id"}
    [] m = ResourceM -> {"name"}
    [] OTHER -> {}

\* unique_together constraints: one membership per user and project, one
\* allocation user per user and allocation.
UniqueTogether(m) ==
  CASE m = ProjectUserM -> {"user_id", "project_id"}
    [] m = AllocationUserM -> {"user_id", "allocation_id"}
    [] OTHER -> {}

\* A comprehension builds its list or dict at once: the value is
\* computed where it is written and never again.
List(f) == f \o << >>
Dict(f) == f @@ << >>

(* ---------------------------- ORM helpers ----------------------------- *)
Max(S) == IF S = {} THEN 0 ELSE CHOOSE x \in S : \A y \in S : y <= x

Pks(rows) == { r.pk : r \in rows }

Exists(d, m, pk) == \E r \in d[m] : r.pk = pk

Get(d, m, pk) == CHOOSE r \in d[m] : r.pk = pk

\* The pk the database gives a created row.
NextPk(d, m) == Max(Pks(d[m])) + 1

\* A queryset evaluated in its default order (by pk).
RECURSIVE OrderByPk(_)
OrderByPk(rows) ==
  IF rows = {} THEN << >>
  ELSE LET r == CHOOSE x \in rows : \A y \in rows : x.pk <= y.pk
       IN << r >> \o OrderByPk(rows \ {r})

Range(s) == { s[i] : i \in 1..Len(s) }

\* The concrete (column) part and the many-to-many part of a row.
Concrete(m, row) == Dict([ f \in (DOMAIN row) \ M2MNames(m) |-> row[f] ])

\* A referenced row is missing.
FKViolation(d, m, row) ==
  \E fk \in ForeignKeys(m) :
     /\ row[fk[1]] # NoPk
     /\ ~Exists(d, fk[2], row[fk[1]])

\* Another row holds the same unique value.
UniqueViolation(d, m, row) ==
  \E r \in d[m] :
     /\ r.pk # row.pk
     /\ \/ \E f \in UniqueFields(m) : r[f] = row[f]
        \/ /\ UniqueTogether(m) # {}
           /\ \A f \in UniqueTogether(m) : r[f] = row[f]

\* Model.save() raises IntegrityError.
IntegrityError(d, m, row) == FKViolation(d, m, row) \/ UniqueViolation(d, m, row)

\* Model.save() of a row that violates nothing: update by pk, else insert.
\* The many-to-many sets of an existing row are kept.
SaveRow(d, m, row) ==
  LET old == { r \in d[m] : r.pk = row.pk }
      kept == IF old = {} THEN Dict([ f \in M2MNames(m) |-> {} ])
              ELSE LET o == CHOOSE r \in old : TRUE
                   IN Dict([ f \in M2MNames(m) |-> o[f] ])
      full == Dict([ f \in (DOMAIN row) \cup M2MNames(m) |->
                  IF f \in M2MNames(m) THEN kept[f] ELSE row[f] ])
  IN [ d EXCEPT ![m] = (@ \ old) \cup { full } ]

DeleteRow(d, m, pk) == [ d EXCEPT ![m] = { r \in @ : r.pk # pk } ]

(* ------------------------- permission checks -------------------------- *)
IsSuperuser(d, u) == \E r \in d[UserM] : r.pk = u /\ r.is_superuser

\* request.user.userprofile.is_pi
IsPI(d, u) == \E r \in d[ProfileM] : r.user_id = u /\ r.is_pi

IsActiveManager(d, u, p) ==
  \E r \in d[ProjectUserM] :
     r.project_id = p /\ r.user_id = u /\ r.role = "Manager" /\ r.status = "Active"

\* test_func shared by the archive, update, export, add-users and
\* remove-users views: superuser, the project's PI, or an active manager.
ManagerTest(d, u, p) ==
  \/ IsSuperuser(d, u)
  \/ Get(d, ProjectM, p).pi_id = u
  \/ IsActiveManager(d, u, p)

(* --------------------------- archive_project -------------------------- *)
\* A variant whose filter forgets the status (allocation_set.all()); C9
\* tells the two apart.
ArchiveEveryAllocation(d, project, t) ==
  [ SaveRow(d, ProjectM, [ project EXCEPT !.status = "Archived" ]) EXCEPT ![AllocationM] =
      { IF a.project_id = project.pk
        THEN [ a EXCEPT !.status = "Expired", !.end_date = t ] ELSE a : a \in @ } ]

\* archive_project(project): project is the instance the caller holds.
archive_project(d, project, t) ==
  LET d1 == SaveRow(d, ProjectM, [ project EXCEPT !.status = "Archived" ])
      active == { a \in d1[AllocationM] :
                    a.project_id = project.pk /\ a.status = "Active" }
  IN [ d1 EXCEPT ![AllocationM] =
         (@ \ active) \cup
         { [ a EXCEPT !.status = "Expired", !.end_date = t ] : a \in active } ]

(* ------------------------------ export -------------------------------- *)
\* serializers.serialize('json', queryset): one object per row, in
\* queryset order, carrying the model label, the pk and the fields.
fix_serialize_data(m, rows) ==
  LET q == OrderByPk(rows)
  IN List([ i \in 1..Len(q) |->
         [ model |-> m, pk |-> q[i].pk,
           fields |-> Dict([ f \in (DOMAIN q[i]) \ {"pk"} |-> q[i][f] ]) ] ])

\* One pass of the while loop of _get_resource_query: the linked resources
\* of the selected resources and the resources whose parent is selected.
ResourcePass(d, ids) ==
  LET linked == UNION { r.linked_resources : r \in { x \in d[ResourceM] : x.pk \in ids } }
      all == ids \cup linked
      children == { r.pk : r \in { x \in d[ResourceM] : x.parent_resource_id \in all } }
  IN all \cup children

\* _get_resource_query: the resources of the allocations, followed through
\* links and children until the set stops growing.
RECURSIVE ResourceLoop(_, _)
ResourceLoop(d, ids) ==
  LET next == ResourcePass(d, ids)
  IN IF next = ids THEN ids ELSE ResourceLoop(d, next)

_get_resource_query(d, proj_alloc) ==
  LET all_ids == ResourceLoop(d, UNION { a.resources : a \in proj_alloc })
  IN { r \in d[ResourceM] : r.pk \in all_ids }

\* The querysets the export serialises, by model label (the else branch of
\* ProjectExportView.dispatch).
ExportQuery(d, p_id) ==
  LET proj_users == { r \in d[ProjectUserM] : r.project_id = p_id }
      proj_alloc == { r \in d[AllocationM] : r.project_id = p_id }
      alloc_ids == Pks(proj_alloc)
      alloc_users == { r \in d[AllocationUserM] : r.allocation_id \in alloc_ids }
      proj_resources == _get_resource_query(d, proj_alloc)
      resource_user_ids == UNION { r.allowed_users : r \in proj_resources }
      resource_group_ids == UNION { r.allowed_groups : r \in proj_resources }
      alloc_admin_notes == { r \in d[AdminNoteM] : r.allocation_id \in alloc_ids }
      alloc_user_notes == { r \in d[UserNoteM] : r.allocation_id \in alloc_ids }
      user_ids == { r.user_id : r \in proj_users } \cup resource_user_ids
                    \cup { r.author_id : r \in alloc_admin_notes }
                    \cup { r.author_id : r \in alloc_user_notes }
  IN Dict([ m \in Models |->
       CASE m = ProjectM -> { r \in d[ProjectM] : r.pk = p_id }
         [] m = UserM -> { r \in d[UserM] : r.pk \in user_ids }
         [] m = ProfileM -> { r \in d[ProfileM] : r.user_id \in user_ids }
         [] m = GroupM -> { r \in d[GroupM] : r.pk \in resource_group_ids }
         [] m = ProjectUserM -> proj_users
         [] m = ResourceM -> proj_resources
         [] m = AllocationM -> proj_alloc
         [] m = AllocationUserM -> alloc_users
         [] m = AdminNoteM -> alloc_admin_notes
         [] m = UserNoteM -> alloc_user_notes
         [] m \in {AllocAttrM, AllocChangeM} ->
              { r \in d[m] : r.allocation_id \in alloc_ids }
         [] OTHER -> { r \in d[m] : r.project_id = p_id } ])

\* serialized_data: the document, one serialised list per queryset.
ExportDocument(d, p_id) ==
  LET q == ExportQuery(d, p_id)
  IN List([ i \in 1..Len(ExportOrder) |-> fix_serialize_data(ExportOrder[i], q[ExportOrder[i]]) ])

\* ProjectExportView.test_func
ExportTestFunc(d, u, p_id) == ManagerTest(d, u, p_id)

NoDoc == << >>

\* What a request got back: the view, request.user, the project pk of the
\* URL, the kind of response, the flashed message and its level, the URL
\* name a redirect goes to, the JSON body and the allocation signals sent
\* while handling it.
Response(view, u, pk, kind, msg, doc) ==
  [ view |-> view, user |-> u, pk |-> pk, kind |-> kind, msg |-> msg, level |-> "",
    to |-> "", doc |-> doc, signals |-> << >>,
    status |-> CASE kind \in {"redirect", "login"} -> 302
                 [] kind = "forbidden" -> 403
                 [] kind = "error" -> 500
                 [] OTHER -> 200 ]

\* HttpResponse(body, status=status)
HttpResponse(view, u, pk, body, status) ==
  [ Response(view, u, pk, "http", body, NoDoc) EXCEPT !.status = status ]

\* messages.<level>(request, msg) and HttpResponseRedirect(reverse(to))
Redirect(view, u, pk, to, level, msg) ==
  [ Response(view, u, pk, "redirect", msg, NoDoc) EXCEPT !.to = to, !.level = level ]

\* LoginRequiredMixin and UserPassesTestMixin, in dispatch order: no session
\* redirects to the login page, a failed test_func is refused.
MixinRefusal(view, u, pk, passes) ==
  IF u = Anonymous THEN Response(view, u, pk, "login", "", NoDoc)
  ELSE IF ~passes THEN Response(view, u, pk, "forbidden", "", NoDoc)
  ELSE Response(view, u, pk, "pass", "", NoDoc)

\* ProjectExportView.dispatch: the handler itself; it does not call
\* super().dispatch(), so the login and test_func mixins never run.
ExportDispatch(d, u, p_id) ==
  IF Get(d, ProjectM, p_id).status \notin {"Active", "New"}
  THEN Redirect("export", u, p_id, "project-detail", "error",
                "You cannot export an archived project.")
  ELSE Response("export", u, p_id, "json", "", ExportDocument(d, p_id))

(* ------------------------------ import -------------------------------- *)
\* serializers.deserialize: a DeserializedObject wrapping the model
\* instance (its columns) and carrying the many-to-many lists apart.
Deserialize(o) ==
  [ cls |-> "DeserializedObject",
    model |-> o.model,
    object |-> Dict([ f \in ({"pk"} \cup DOMAIN o.fields) \ M2MNames(o.model) |->
                   IF f = "pk" THEN o.pk ELSE o.fields[f] ]),
    m2m_data |-> Dict([ f \in M2MNames(o.model) |-> o.fields[f] ]) ]

\* do_dict is an insertion-ordered dictionary: a sequence of entries.
HasKey(dd, k) == \E i \in 1..Len(dd) : dd[i].key = k

Objs(dd, k) == dd[CHOOSE i \in 1..Len(dd) : dd[i].key = k].objs

SetObjs(dd, k, objs) ==
  List([ i \in 1..Len(dd) |-> IF dd[i].key = k THEN [ key |-> k, objs |-> objs ] ELSE dd[i] ])

\* The model label the import reads from a member of the document: the
\* first "model" found in its text; a member without objects has none.
MemberName(member) == IF member = << >> THEN "" ELSE member[1].model

\* Step 1: gather the deserialised objects of every member under its
\* label. A key keeps the place of its first member and the objects of
\* its last one.
GatherObjects(grouped_data) ==
  LET n == Len(grouped_data)
      name == List([ i \in 1..n |-> MemberName(grouped_data[i]) ])
      firsts == SelectSeq(List([ i \in 1..n |-> i ]),
                          LAMBDA i : name[i] # "" /\ \A j \in 1..(i - 1) : name[j] # name[i])
      last(k) == Max({ j \in 1..n : name[j] = k })
  IN List([ e \in 1..Len(firsts) |->
         [ key |-> name[firsts[e]],
           objs |-> List([ i \in 1..Len(grouped_data[last(name[firsts[e]])]) |->
                        Deserialize(grouped_data[last(name[firsts[e]])][i]) ]) ] ])

\* Models _same_obj_exists is never asked about.
duplicate_model_keys == { ProjectUserM, AllocationUserM }

\* _same_obj_exists: some unique non-id field has the same value.
_same_obj_exists(m, cur_obj, new_obj) ==
  \E key \in UniqueFields(m) : cur_obj[key] = new_obj[key]

\* A variant of step 2 that forgets new_pk between objects and starts
\* again from the greatest pk of the table; C17 tells the two apart.
RECURSIVE AssignFromTable(_, _, _, _)
AssignFromTable(d, key, i, st) ==
  IF i > Len(st.objs) THEN st
  ELSE LET obj == st.objs[i]
           table == d[obj.model]
           same == IF key \in duplicate_model_keys THEN {}
                   ELSE { cur \in table : _same_obj_exists(obj.model, cur, obj.object) }
           seen == Max({ 0 } \cup Pks(table \ same))
       IN IF same # {}
          THEN AssignFromTable(d, key, i + 1,
                 [ st EXCEPT !.trans = (obj.object.pk :> Max(Pks(same))) @@ @,
                             !.dups = @ \cup { obj.object.pk } ])
          ELSE AssignFromTable(d, key, i + 1,
                 [ st EXCEPT !.trans = (obj.object.pk :> (seen + 1)) @@ @,
                             !.objs[i].object.pk = seen + 1 ])

\* Step 2 for the objects of one key, from position i on: st carries
\* new_pk, the key's translation table and the objects.
RECURSIVE AssignPks(_, _, _, _)
AssignPks(d, key, i, st) ==
  IF i > Len(st.objs) THEN st
  ELSE LET obj == st.objs[i]
           table == d[obj.model]
           same == IF key \in duplicate_model_keys THEN {}
                   ELSE { cur \in table : _same_obj_exists(obj.model, cur, obj.object) }
           seen == Max({ st.new_pk } \cup Pks(table \ same))
       IN IF same # {}
          THEN AssignPks(d, key, i + 1,
                 [ st EXCEPT !.new_pk = seen,
                             !.trans = (obj.object.pk :> Max(Pks(same))) @@ @,
                             !.dups = @ \cup { obj.object.pk } ])
          ELSE AssignPks(d, key, i + 1,
                 [ st EXCEPT !.new_pk = seen + 1,
                             !.trans = (obj.object.pk :> (seen + 1)) @@ @,
                             !.objs[i].object.pk = seen + 1 ])

AssignKey(d, entry) ==
  AssignPks(d, entry.key, 1,
            [ new_pk |-> 0, trans |-> << >>, dups |-> {}, objs |-> entry.objs ])

\* Step 2: the objects with their assigned pks, the pk translation table
\* and, per key, the imported pks matched to an existing row.
AssignAll(d, do_dict) ==
  LET done == List([ i \in 1..Len(do_dict) |-> AssignKey(d, do_dict[i]) ])
      keys == { do_dict[i].key : i \in 1..Len(do_dict) }
      at(k) == CHOOSE i \in 1..Len(do_dict) : do_dict[i].key = k
  IN [ do_dict |-> List([ i \in 1..Len(do_dict) |->
                       [ key |-> do_dict[i].key, objs |-> done[i].objs ] ]),
       pk_translation_table |-> Dict([ k \in keys |-> done[at(k)].trans ]),
       dups |-> Dict([ k \in keys |-> done[at(k)].dups ]) ]

\* Step 3 works on st = [err, do_dict, regist]: err is set when a lookup in
\* the translation table raises KeyError, which ends the request.
MapObjs(st, to_name, objs) == [ st EXCEPT !.do_dict = SetObjs(@, to_name, objs) ]

\* _update_field: translate a foreign-key column of every object of to_name.
_update_field(st, to_name, from_name, field_name, trans_tbl) ==
  IF st.err \/ ~HasKey(st.do_dict, to_name) THEN st
  ELSE LET objs == Objs(st.do_dict, to_name)
       IN IF \/ from_name \notin DOMAIN trans_tbl
             \/ \E i \in 1..Len(objs) :
                   objs[i].object[field_name] \notin DOMAIN trans_tbl[from_name]
          THEN [ st EXCEPT !.err = TRUE ]
          ELSE MapObjs(st, to_name,
                 List([ i \in 1..Len(objs) |->
                     [ objs[i] EXCEPT !.object[field_name] = trans_tbl[from_name][@] ] ]))

\* _update_m2m: translate a many-to-many list of every object of to_name.
_update_m2m(st, to_name, from_name, m2m_name, trans_tbl) ==
  IF st.err \/ ~HasKey(st.do_dict, to_name) \/ from_name \notin DOMAIN trans_tbl THEN st
  ELSE LET objs == Objs(st.do_dict, to_name)
       IN IF \E i \in 1..Len(objs) :
                ~(objs[i].m2m_data[m2m_name] \subseteq DOMAIN trans_tbl[from_name])
          THEN [ st EXCEPT !.err = TRUE ]
          ELSE MapObjs(st, to_name,
                 List([ i \in 1..Len(objs) |->
                     [ objs[i] EXCEPT !.m2m_data[m2m_name] =
                         { trans_tbl[from_name][ln] : ln \in @ } ] ]))

\* A later dictionary assignment under the same pk replaces an earlier one.
LastWithPk(objs, pk) == Max({ i \in 1..Len(objs) : objs[i].object.pk = pk })

\* _register_m2m: set the translated list aside under the object's pk and
\* empty it on the object.
_register_m2m(st, to_name, from_name, m2m_name, trans_tbl) ==
  IF st.err \/ ~HasKey(st.do_dict, to_name) THEN st
  ELSE LET objs == Objs(st.do_dict, to_name)
       IN IF \E i \in 1..Len(objs) :
                ~(objs[i].m2m_data[m2m_name] \subseteq DOMAIN trans_tbl[from_name])
          THEN [ st EXCEPT !.err = TRUE ]
          ELSE [ MapObjs(st, to_name,
                   List([ i \in 1..Len(objs) |->
                       [ objs[i] EXCEPT !.m2m_data[m2m_name] = {} ] ]))
                 EXCEPT !.regist[m2m_name] =
                   Dict([ pk \in { objs[i].object.pk : i \in 1..Len(objs) } |->
                       { trans_tbl[from_name][ln] :
                           ln \in objs[LastWithPk(objs, pk)].m2m_data[m2m_name] } ]),
                        !.registered = TRUE ]

\* _register_field: set the column's value aside, as imported, under the
\* object's pk and clear it on the object.
_register_field(st, to_name, from_name, field_name, trans_tbl) ==
  IF st.err \/ ~HasKey(st.do_dict, to_name) THEN st
  ELSE LET objs == Objs(st.do_dict, to_name)
       IN [ MapObjs(st, to_name,
              List([ i \in 1..Len(objs) |-> [ objs[i] EXCEPT !.object[field_name] = NoPk ] ]))
            EXCEPT !.regist[field_name] =
              Dict([ pk \in { objs[i].object.pk : i \in 1..Len(objs) } |->
                  objs[LastWithPk(objs, pk)].object[field_name] ]),
                   !.registered = TRUE ]

\* The models that carry project_id, as listed by the import.
ProjectIdModels ==
  << ProjectUserM, AllocationM, PublicationM, GrantM, AdminCommentM,
     UserMessageM, ReviewM, ResearchOutputM >>

Call(fn, to_name, from_name, field_name) ==
  [ fn |-> fn, to_name |-> to_name, from_name |-> from_name, field_name |-> field_name ]

BatchCalls(to_names, from_name, field_name) ==
  List([ i \in 1..Len(to_names) |-> Call("_update_field", to_names[i], from_name, field_name) ])

\* Step 3: the calls of the field matching, in order; a batch call is the
\* calls of _update_field it makes.
MatchCalls ==
  << Call("_update_field", ProjectM, UserM, "pi_id"),
     Call("_register_field", ResourceM, ResourceM, "parent_resource_id"),
     Call("_register_m2m", ResourceM, ResourceM, "linked_resources"),
     Call("_update_m2m", UserM, GroupM, "groups"),
     Call("_update_field", ProfileM, UserM, "user_id"),
     Call("_update_m2m", ResourceM, UserM, "allowed_users"),
     Call("_update_m2m", ResourceM, GroupM, "allowed_groups"),
     Call("_update_m2m", AllocationM, ResourceM, "resources"),
     Call("_update_field", AllocationUserM, UserM, "user_id"),
     Call("_update_field", AllocationUserM, AllocationM, "allocation_id") >>
  \o BatchCalls(<< AllocChangeM, AllocAttrM, AdminNoteM, UserNoteM >>,
                AllocationM, "allocation_id")
  \o BatchCalls(<< AdminNoteM, UserNoteM >>, UserM, "author_id")
  \o BatchCalls(ProjectIdModels, ProjectM, "project_id")

MakeCall(st, c, t) ==
  CASE c.fn = "_update_field" -> _update_field(st, c.to_name, c.from_name, c.field_name, t)
    [] c.fn = "_update_m2m" -> _update_m2m(st, c.to_name, c.from_name, c.field_name, t)
    [] c.fn = "_register_m2m" -> _register_m2m(st, c.to_name, c.from_name, c.field_name, t)
    [] c.fn = "_register_field" -> _register_field(st, c.to_name, c.from_name, c.field_name, t)

\* The calls from position i on; a KeyError ends the request at once.
RECURSIVE MatchFrom(_, _, _)
MatchFrom(st, i, t) ==
  IF st.err \/ i > Len(MatchCalls) THEN st
  ELSE MatchFrom(MakeCall(st, MatchCalls[i], t), i + 1, t)

MatchFields(do_dict, t) ==
  MatchFrom([ err |-> FALSE, do_dict |-> do_dict, registered |-> FALSE,
              regist |-> [ parent_resource_id |-> << >>, linked_resources |-> << >> ] ],
            1, t)

\* isinstance(obj, cls)
IsInstance(obj, cls) == obj.cls = cls

\* related_manager.set(ids) for the many-to-many fields from position i on;
\* a missing target raises IntegrityError and leaves that field as it was.
RECURSIVE SetM2M(_, _, _)
SetM2M(d, obj, i) ==
  IF i > Len(ManyToMany(obj.model)) THEN [ db |-> d, raised |-> FALSE ]
  ELSE LET f == ManyToMany(obj.model)[i]
           ids == obj.m2m_data[f[1]]
       IN IF \E id \in ids : ~Exists(d, f[2], id)
          THEN [ db |-> d, raised |-> TRUE ]
          ELSE SetM2M([ d EXCEPT ![obj.model] =
                          { IF r.pk = obj.object.pk THEN [ r EXCEPT ![f[1]] = ids ] ELSE r
                            : r \in @ } ],
                      obj, i + 1)

\* DeserializedObject.save(): save_base of the instance, then the
\* many-to-many lists. stored says whether the row was written.
DesSave(d, obj) ==
  IF IntegrityError(d, obj.model, obj.object)
  THEN [ db |-> d, raised |-> TRUE, stored |-> FALSE ]
  ELSE LET r == SetM2M(SaveRow(d, obj.model, obj.object), obj, 1)
       IN [ db |-> r.db, raised |-> r.raised, stored |-> TRUE ]

RECURSIVE Flatten(_)
Flatten(do_dict) ==
  IF do_dict = << >> THEN << >> ELSE Head(do_dict).objs \o Flatten(Tail(do_dict))

\* What the loop keeps of one save.
SaveEntry(obj, r) ==
  [ model |-> obj.model, pk |-> obj.object.pk, raised |-> r.raised, stored |-> r.stored ]

\* One turn of the loop of step 4: an IntegrityError is swallowed, and
\* asks for a second save only when the object is an instance of Project.
SaveOne(st, obj, r) ==
  [ db |-> r.db,
    resave_proj |-> st.resave_proj \/ (r.raised /\ IsInstance(obj, "Project")),
    log |-> Append(st.log, SaveEntry(obj, r)) ]

\* Step 4, the save loop: every object is saved once, in the order of
\* do_dict; the log says how far the loop has come.
RECURSIVE SaveLoop(_, _)
SaveLoop(objs, st) ==
  IF Len(st.log) >= Len(objs) THEN st
  ELSE SaveLoop(objs, SaveOne(st, objs[Len(st.log) + 1],
                              DesSave(st.db, objs[Len(st.log) + 1])))

RECURSIVE SortInts(_)
SortInts(S) ==
  IF S = {} THEN << >>
  ELSE LET x == CHOOSE a \in S : \A b \in S : a <= b
       IN << x >> \o SortInts(S \ {x})

\* obj.linked_resources.add(other) on a symmetrical relation.
LinkResources(d, a, b) ==
  [ d EXCEPT ![ResourceM] =
      { IF r.pk = a THEN [ r EXCEPT !.linked_resources = @ \cup {b} ]
        ELSE IF r.pk = b THEN [ r EXCEPT !.linked_resources = @ \cup {a} ]
        ELSE r : r \in @ } ]

\* _reassign_m2m over the pairs <<resource pk, linked pk>> still to add;
\* query.filter(pk=id)[0] raises IndexError when the resource is missing.
RECURSIVE ReassignLinks(_, _)
ReassignLinks(d, pairs) ==
  IF pairs = << >> THEN [ db |-> d, error |-> "" ]
  ELSE IF ~Exists(d, ResourceM, Head(pairs)[2]) THEN [ db |-> d, error |-> "IndexError" ]
  ELSE ReassignLinks(LinkResources(d, Head(pairs)[1], Head(pairs)[2]), Tail(pairs))

RECURSIVE LinkPairs(_, _)
LinkPairs(pks, tbl) ==
  IF pks = << >> THEN << >>
  ELSE LET ids == SortInts(tbl[Head(pks)])
       IN List([ i \in 1..Len(ids) |-> << Head(pks), ids[i] >> ]) \o LinkPairs(Tail(pks), tbl)

_reassign_m2m(d, st) ==
  IF ~HasKey(st.do_dict, ResourceM) THEN [ db |-> d, error |-> "" ]
  ELSE LET tbl == st.regist.linked_resources
       IN ReassignLinks(d, LinkPairs(SortInts(Pks(d[ResourceM]) \cap DOMAIN tbl), tbl))

\* _reassign_field over the resources still to visit: the column gets the
\* value set aside and is saved; the save raises when the row is missing.
RECURSIVE ReassignParents(_, _, _)
ReassignParents(d, pks, tbl) ==
  IF pks = << >> THEN [ db |-> d, error |-> "" ]
  ELSE LET row == [ Get(d, ResourceM, Head(pks)) EXCEPT !.parent_resource_id = tbl[Head(pks)] ]
       IN IF FKViolation(d, ResourceM, row) THEN [ db |-> d, error |-> "IntegrityError" ]
          ELSE ReassignParents(SaveRow(d, ResourceM, Concrete(ResourceM, row)),
                               Tail(pks), tbl)

_reassign_field(d, st) ==
  IF ~HasKey(st.do_dict, ResourceM) THEN [ db |-> d, error |-> "" ]
  ELSE LET tbl == st.regist.parent_resource_id
       IN ReassignParents(d, SortInts(Pks(d[ResourceM]) \cap DOMAIN tbl), tbl)

\* The second save of the project: do_dict['project.project'][0].object.save()
ResaveProject(d, do_dict) ==
  IF ~HasKey(do_dict, ProjectM) THEN [ db |-> d, error |-> "KeyError" ]
  ELSE LET obj == Objs(do_dict, ProjectM)[1].object
       IN IF IntegrityError(d, ProjectM, obj) THEN [ db |-> d, error |-> "IntegrityError" ]
          ELSE [ db |-> SaveRow(d, ProjectM, obj), error |-> "" ]

NoImport ==
  [ ran |-> FALSE, error |-> "", doc |-> NoDoc, do_dict |-> << >>,
    table |-> << >>, dups |-> << >>, log |-> << >>, resave_proj |-> FALSE,
    resaves |-> 0 ]

\* What the request leaves behind: the database and the account of the run.
ImportDone(report, saved, r, resaves) ==
  [ db |-> r.db,
    imp |-> [ report EXCEPT !.error = r.error, !.log = saved.log,
                            !.resave_proj = saved.resave_proj, !.resaves = resaves ] ]

\* "Retry save once": the project is saved again when the loop asked for it.
ImportResave(report, matched, saved, r) ==
  IF r.error # "" \/ ~saved.resave_proj THEN ImportDone(report, saved, r, 0)
  ELSE ImportDone(report, saved, ResaveProject(r.db, matched.do_dict), 1)

ImportReassignField(report, matched, saved, r) ==
  IF r.error # "" THEN ImportDone(report, saved, r, 0)
  ELSE ImportResave(report, matched, saved, _reassign_field(r.db, matched))

ImportReassign(report, matched, saved) ==
  ImportReassignField(report, matched, saved, _reassign_m2m(saved.db, matched))

\* Step 4 and what follows it; a KeyError of step 3 has ended the request
\* before anything was saved.
ImportSave(d, report, matched) ==
  IF matched.err THEN [ db |-> d, imp |-> [ report EXCEPT !.error = "KeyError" ] ]
  ELSE ImportReassign([ report EXCEPT !.do_dict = matched.do_dict ], matched,
                      SaveLoop(Flatten(matched.do_dict),
                               [ db |-> d, resave_proj |-> FALSE, log |-> << >> ]))

ImportMatch(d, doc, assigned) ==
  ImportSave(d,
             [ NoImport EXCEPT !.ran = TRUE, !.doc = doc,
                               !.do_dict = assigned.do_dict,
                               !.table = assigned.pk_translation_table,
                               !.dups = assigned.dups ],
             MatchFields(assigned.do_dict, assigned.pk_translation_table))

\* ProjectImportView.post for a valid form and a well-formed JSON file.
ImportPost(d, doc) == ImportMatch(d, doc, AssignAll(d, GatherObjects(doc)))

(* ------------------------------- merge -------------------------------- *)
\* _combine_objects over the members still to move: the member is saved
\* under the new project, or deleted when the save raises IntegrityError.
RECURSIVE CombineMembers(_, _, _, _)
CombineMembers(d, m, members, to_id) ==
  IF members = << >> THEN d
  ELSE LET member == Concrete(m, [ Head(members) EXCEPT !.project_id = to_id ])
       IN IF IntegrityError(d, m, member)
          THEN CombineMembers(DeleteRow(d, m, member.pk), m, Tail(members), to_id)
          ELSE CombineMembers(SaveRow(d, m, member), m, Tail(members), to_id)

\* A variant that filters on the first project only (project_id=from_ids[0]
\* for project_id__in=from_ids); C7 tells the two apart.
CombineFromFirst(d, from_ids, to_id, m) ==
  CombineMembers(d, m, OrderByPk({ r \in d[m] : r.project_id = -Max({ -x : x \in from_ids }) }),
                 to_id)

_combine_objects(d, from_ids, to_id, m) ==
  CombineMembers(d, m, OrderByPk({ r \in d[m] : r.project_id \in from_ids }), to_id)

RECURSIVE CombineAll(_, _, _, _)
CombineAll(d, from_ids, to_id, models) ==
  IF models = << >> THEN d
  ELSE CombineAll(_combine_objects(d, from_ids, to_id, Head(models)),
                  from_ids, to_id, Tail(models))

\* A variant that archives the first selected project only; C8 tells the
\* two apart.
ArchiveFirst(d, projs, t) ==
  IF projs = << >> THEN d ELSE archive_project(d, Head(projs), t)

RECURSIVE ArchiveAll(_, _, _)
ArchiveAll(d, projs, t) ==
  IF projs = << >> THEN d
  ELSE ArchiveAll(archive_project(d, Head(projs), t), Tail(projs), t)

\* get_proj_list: the projects that are not archived.
get_proj_list(d) == OrderByPk({ r \in d[ProjectM] : r.status # "Archived" })

\* ProjectMergeView.post: selected is the set of ids ticked in the formset.
MergePost(d, u, selected, title, description, t) ==
  LET proj_list == get_proj_list(d)
      projs_to_merge == SelectSeq(proj_list, LAMBDA r : r.pk \in selected)
      proj_ids == { projs_to_merge[i].pk : i \in 1..Len(projs_to_merge) }
      merged_proj == [ pk |-> NextPk(d, ProjectM), pi_id |-> u,
                       status |-> projs_to_merge[1].status,
                       title |-> title, description |-> description ]
      created == SaveRow(d, ProjectM, merged_proj)
      combined == CombineAll(created, proj_ids, merged_proj.pk, MergeOrder)
  IN IF projs_to_merge = << >> THEN d
     ELSE ArchiveAll(combined, projs_to_merge, t)

(* ------------------------------ update -------------------------------- *)
\* ProjectUpdateView.dispatch and, behind it, the UpdateView form save.
UpdateDispatch(d, u, p_id, title, description) ==
  IF Get(d, ProjectM, p_id).status \notin {"Active", "New"}
  THEN [ db |-> d,
         resp |-> Redirect("update", u, p_id, "project-detail", "error",
                           "You cannot update an archived project.") ]
  ELSE LET gate == MixinRefusal("update", u, p_id, ManagerTest(d, u, p_id))
       IN IF gate.kind # "pass" THEN [ db |-> d, resp |-> gate ]
          ELSE [ db |-> SaveRow(d, ProjectM,
                          [ Get(d, ProjectM, p_id) EXCEPT !.title = title,
                                                          !.description = description ]),
                 resp |-> Redirect("update", u, p_id, "project-detail", "success", "Project updated.") ]

(* ----------------------------- add users ------------------------------ *)
\* The search matches offered by the add-users formset: the usernames found
\* that are not those of the project's Active members, in username order.
AddUserMatches(d, p_id) ==
  LET exclude == { Get(d, UserM, r.user_id).username :
                     r \in { x \in d[ProjectUserM] :
                               x.project_id = p_id /\ x.status = "Active" } }
  IN { r.username : r \in d[UserM] } \ exclude

\* User.objects.get_or_create(username=...)
GetOrCreateUser(d, username) ==
  IF \E r \in d[UserM] : r.username = username THEN d
  ELSE SaveRow(d, UserM, [ pk |-> NextPk(d, UserM), username |-> username,
                           is_superuser |-> FALSE ])

UserByName(d, username) == CHOOSE r \in d[UserM] : r.username = username

\* A variant of the allocation loop that never looks for an existing
\* allocation user and always creates one; C13 tells the two apart.
RECURSIVE CreateInAllocations(_, _, _)
CreateInAllocations(st, user_pk, allocs) ==
  IF allocs = << >> THEN st
  ELSE LET row == [ pk |-> NextPk(st.db, AllocationUserM), allocation_id |-> Head(allocs),
                    user_id |-> user_pk, status |-> "Active" ]
       IN CreateInAllocations(
            [ db |-> SaveRow(st.db, AllocationUserM, row),
              signals |-> Append(st.signals, << "allocation_activate_user", row.pk >>) ],
            user_pk, Tail(allocs))

\* The allocation loop of the add-users post for one user, over the
\* allocations still to visit; st carries the database and the signals.
RECURSIVE ActivateInAllocations(_, _, _)
ActivateInAllocations(st, user_pk, allocs) ==
  IF allocs = << >> THEN st
  ELSE LET a == Head(allocs)
           found == { r \in st.db[AllocationUserM] :
                        r.allocation_id = a /\ r.user_id = user_pk }
           row == IF found # {}
                  THEN [ (CHOOSE r \in found : TRUE) EXCEPT !.status = "Active" ]
                  ELSE [ pk |-> NextPk(st.db, AllocationUserM), allocation_id |-> a,
                         user_id |-> user_pk, status |-> "Active" ]
       IN ActivateInAllocations(
            [ db |-> SaveRow(st.db, AllocationUserM, row),
              signals |-> Append(st.signals, << "allocation_activate_user", row.pk >>) ],
            user_pk, Tail(allocs))

\* The formset loop of ProjectAddUsersView.post over the selected forms.
RECURSIVE AddSelected(_, _, _, _, _)
AddSelected(st, p_id, usernames, roles, allocation_form_data) ==
  IF usernames = << >> THEN st
  ELSE LET d1 == GetOrCreateUser(st.db, Head(usernames))
           user_obj == UserByName(d1, Head(usernames))
           found == { r \in d1[ProjectUserM] :
                        r.project_id = p_id /\ r.user_id = user_obj.pk }
           project_user_obj ==
             IF found # {}
             THEN [ (CHOOSE r \in found : TRUE) EXCEPT !.role = roles[Head(usernames)],
                                                        !.status = "Active" ]
             ELSE [ pk |-> NextPk(d1, ProjectUserM), user_id |-> user_obj.pk,
                    project_id |-> p_id, role |-> roles[Head(usernames)],
                    status |-> "Active",
                    enable_notifications |-> TRUE ]
           d2 == SaveRow(d1, ProjectUserM, project_user_obj)
           allocs == SortInts(Pks(d2[AllocationM]) \cap allocation_form_data)
       IN AddSelected(ActivateInAllocations([ st EXCEPT !.db = d2 ], user_obj.pk, allocs),
                      p_id, Tail(usernames), roles, allocation_form_data)

RECURSIVE SortStrings(_, _)
SortStrings(S, order) ==
  IF order = << >> THEN << >>
  ELSE (IF Head(order) \in S THEN << Head(order) >> ELSE << >>)
         \o SortStrings(S, Tail(order))

\* The usernames of the model, in alphabetical order.
Alphabet == << "alice", "bob", "carol", "dave", "root" >>

\* A variant that leaves the status test out; C10 tells the two apart.
MixinsOnly(view, d, u, p_id) == MixinRefusal(view, u, p_id, ManagerTest(d, u, p_id))

\* The status gate shared by the add-users views.
AddUsersGate(view, d, u, p_id) ==
  IF Get(d, ProjectM, p_id).status \notin {"Active", "New"}
  THEN Redirect(view, u, p_id, "project-detail", "error",
                "You cannot add users to an archived project.")
  ELSE MixinRefusal(view, u, p_id, ManagerTest(d, u, p_id))

\* ProjectAddUsersView: dispatch, then post with a valid formset in which
\* the forms of `selected` are ticked and the form of a user carries the
\* role roles[username].
AddUsersDispatch(d, u, p_id, selected, roles, allocation_form_data) ==
  LET gate == AddUsersGate("add-users", d, u, p_id)
  IN IF gate.kind # "pass" THEN [ db |-> d, resp |-> gate ]
     ELSE LET st == AddSelected([ db |-> d, signals |-> << >> ], p_id,
                                SortStrings(selected, Alphabet), roles,
                                allocation_form_data)
          IN [ db |-> st.db,
               resp |-> [ Redirect("add-users", u, p_id, "project-detail", "success",
                                   "Added users to project.")
                          EXCEPT !.signals = st.signals ] ]

\* ProjectAddUsersSearchView and ProjectAddUsersSearchResultsView: the same
\* gate, then a rendered page.
AddUsersSearchDispatch(d, u, p_id) ==
  LET gate == AddUsersGate("add-users-search", d, u, p_id)
  IN IF gate.kind # "pass" THEN gate
     ELSE Response("add-users-search", u, p_id, "render", "", NoDoc)

(* ---------------------------- remove users ---------------------------- *)
\* get_users_to_remove: the Active members other than the requester and the PI.
get_users_to_remove(d, u, p_id) ==
  { Get(d, UserM, r.user_id).username :
      r \in { x \in d[ProjectUserM] :
                /\ x.project_id = p_id /\ x.status = "Active"
                /\ x.user_id # u /\ x.user_id # Get(d, ProjectM, p_id).pi_id } }

\* A variant that takes the user's Active allocation users of every
\* project; C14 tells the two apart.
AllocationUsersAnywhere(d, p_id, user_pk) ==
  { r \in d[AllocationUserM] : r.user_id = user_pk /\ r.status = "Active" }

\* The allocation users a removal touches: Active ones of the user in the
\* project's allocations that are Active, New or Renewal Requested.
RemovableAllocationUsers(d, p_id, user_pk) ==
  LET allocations == { a.pk : a \in { x \in d[AllocationM] :
                         /\ x.project_id = p_id
                         /\ x.status \in {"Active", "New", "Renewal Requested"} } }
  IN { r \in d[AllocationUserM] :
         r.allocation_id \in allocations /\ r.user_id = user_pk /\ r.status = "Active" }

\* The formset loop of ProjectRemoveUsersView.post over the selected forms.
RECURSIVE RemoveSelected(_, _, _)
RemoveSelected(st, p_id, usernames) ==
  IF usernames = << >> THEN st
  ELSE LET user_obj == UserByName(st.db, Head(usernames))
           project_user_obj == CHOOSE r \in st.db[ProjectUserM] :
                                 r.project_id = p_id /\ r.user_id = user_obj.pk
           d1 == SaveRow(st.db, ProjectUserM,
                         [ project_user_obj EXCEPT !.status = "Removed" ])
           hit == RemovableAllocationUsers(d1, p_id, user_obj.pk)
           order == OrderByPk(hit)
           d2 == [ d1 EXCEPT ![AllocationUserM] =
                     (@ \ hit) \cup { [ r EXCEPT !.status = "Removed" ] : r \in hit } ]
       IN IF Get(st.db, ProjectM, p_id).pi_id = user_obj.pk
          THEN RemoveSelected(st, p_id, Tail(usernames))
          ELSE RemoveSelected(
                 [ db |-> d2,
                   signals |-> st.signals \o
                     List([ i \in 1..Len(order) |-> << "allocation_remove_user", order[i].pk >> ]) ],
                 p_id, Tail(usernames))

\* ProjectRemoveUsersView: dispatch, then post with a valid formset in
\* which the forms of `selected` are ticked.
RemoveUsersDispatch(d, u, p_id, selected) ==
  IF Get(d, ProjectM, p_id).status \notin {"Active", "New"}
  THEN [ db |-> d,
         resp |-> Redirect("remove-users", u, p_id, "project-detail", "error",
                           "You cannot remove users from an archived project.") ]
  ELSE LET gate == MixinRefusal("remove-users", u, p_id, ManagerTest(d, u, p_id))
       IN IF gate.kind # "pass" THEN [ db |-> d, resp |-> gate ]
          ELSE LET st == RemoveSelected([ db |-> d, signals |-> << >> ], p_id,
                                        SortStrings(selected, Alphabet))
               IN [ db |-> st.db,
                    resp |-> [ Redirect("remove-users", u, p_id, "project-detail", "success",
                                        "Removed users from project.")
                               EXCEPT !.signals = st.signals ] ]

(* ---------------------------- user detail ----------------------------- *)
\* ProjectUserDetail: the mixins, then post with a valid form carrying
\* role and enable_notifications. A post that falls off the end returns
\* None, which the framework answers with an error page.
UserDetailPost(d, u, p_id, project_user_pk, role, enable_notifications) ==
  LET gate == MixinRefusal("user-detail", u, p_id, ManagerTest(d, u, p_id))
      project_obj == Get(d, ProjectM, p_id)
      found == { r \in d[ProjectUserM] : r.project_id = p_id /\ r.pk = project_user_pk }
      project_user_obj == CHOOSE r \in found : TRUE
  IN IF gate.kind # "pass" THEN [ db |-> d, resp |-> gate ]
     ELSE IF project_obj.status \notin {"Active", "New"}
     THEN [ db |-> d,
            resp |-> Redirect("user-detail", u, p_id, "project-user-detail", "error",
                              "You cannot update a user in an archived project.") ]
     ELSE IF found = {}
     THEN [ db |-> d, resp |-> Response("user-detail", u, p_id, "error", "", NoDoc) ]
     ELSE IF project_user_obj.user_id = project_obj.pi_id
     THEN [ db |-> d,
            resp |-> Redirect("user-detail", u, p_id, "project-user-detail", "error",
                              "PI role and email notification option cannot be changed.") ]
     ELSE [ db |-> SaveRow(d, ProjectUserM,
                     [ project_user_obj EXCEPT !.enable_notifications = enable_notifications,
                                               !.role = role ]),
            resp |-> Redirect("user-detail", u, p_id, "project-user-detail", "success",
                              "User details updated.") ]

(* ------------------------- email notification ------------------------- *)
\* project_update_email_notification: the value of `allowed`.
allowed(d, request_user, project_user_obj) ==
  \/ Get(d, ProjectM, project_user_obj.project_id).pi_id = request_user
  \/ IsActiveManager(d, request_user, project_user_obj.project_id)
  \/ project_user_obj.user_id = request_user
  \/ IsSuperuser(d, request_user)

\* A variant that ignores `checked` and always switches the flag on; C12
\* tells the two apart.
AlwaysChecked(d, u, project_user_obj, checked) ==
  [ db |-> SaveRow(d, ProjectUserM, [ project_user_obj EXCEPT !.enable_notifications = TRUE ]),
    resp |-> HttpResponse("email-notification", u, project_user_obj.pk, "checked", 200) ]

\* The branch on data.get('checked').
SetChecked(d, u, project_user_obj, checked) ==
  IF checked = "true"
  THEN [ db |-> SaveRow(d, ProjectUserM, [ project_user_obj EXCEPT !.enable_notifications = TRUE ]),
         resp |-> HttpResponse("email-notification", u, project_user_obj.pk, "checked", 200) ]
  ELSE IF checked = "false"
  THEN [ db |-> SaveRow(d, ProjectUserM, [ project_user_obj EXCEPT !.enable_notifications = FALSE ]),
         resp |-> HttpResponse("email-notification", u, project_user_obj.pk, "unchecked", 200) ]
  ELSE [ db |-> d,
         resp |-> HttpResponse("email-notification", u, project_user_obj.pk, "no checked", 400) ]

\* @login_required project_update_email_notification(request)
project_update_email_notification(d, u, method, user_project_id, checked) ==
  IF u = Anonymous
  THEN [ db |-> d, resp |-> Response("email-notification", u, user_project_id, "login", "", NoDoc) ]
  ELSE IF method # "POST"
  THEN [ db |-> d, resp |-> HttpResponse("email-notification", u, user_project_id, "no POST", 400) ]
  ELSE IF ~Exists(d, ProjectUserM, user_project_id)
  THEN [ db |-> d, resp |-> HttpResponse("email-notification", u, user_project_id, "", 404) ]
  ELSE IF ~allowed(d, u, Get(d, ProjectUserM, user_project_id))
  THEN [ db |-> d, resp |-> HttpResponse("email-notification", u, user_project_id, "not allowed", 403) ]
  ELSE SetChecked(d, u, Get(d, ProjectUserM, user_project_id), checked)

(* ---------------------- InferUsernameFromEmail ------------------------ *)
\* A string is a sequence of one-character strings.
Digit == << "0", "1", "2", "3", "4", "5", "6", "7", "8", "9" >>

IsDigit(c) == \E i \in 1..10 : Digit[i] = c

\* int(match[0])
RECURSIVE ToInt(_)
ToInt(s) ==
  IF s = << >> THEN 0
  ELSE 10 * ToInt(SubSeq(s, 1, Len(s) - 1))
       + (CHOOSE i \in 0..9 : Digit[i + 1] = s[Len(s)])

\* str(next)
RECURSIVE Str(_)
Str(n) == IF n < 10 THEN << Digit[n + 1] >> ELSE Str(n \div 10) \o << Digit[(n % 10) + 1] >>

\* Where the match of "\d+$" starts: the first position of the run of
\* digits the string ends in (Len + 1 when it ends in none).
MatchStart(s) ==
  CHOOSE k \in 1..(Len(s) + 1) :
    /\ \A i \in k..Len(s) : IsDigit(s[i])
    /\ k > 1 => ~IsDigit(s[k - 1])

\* A variant that appends '0' once and does not look again; C15 tells the
\* two apart.
AppendZero(username, used_usernames) == username \o << "0" >>

\* next_username: the while loop.
RECURSIVE next_username(_, _)
next_username(username, used_usernames) ==
  IF username \notin used_usernames THEN username
  ELSE IF MatchStart(username) > Len(username)
  THEN next_username(username \o << "0" >>, used_usernames)
  ELSE next_username(
         SubSeq(username, 1, MatchStart(username) - 1)
           \o Str(ToInt(SubSeq(username, MatchStart(username), Len(username))) + 1),
         used_usernames)

\* user.email.split('@')[0]
BeforeAt(email) ==
  LET ats == { i \in 1..Len(email) : email[i] = "@" }
  IN IF ats = {} THEN email
     ELSE SubSeq(email, 1, (CHOOSE i \in ats : \A j \in ats : i <= j) - 1)

\* The key of the entry: the match on self.key_option.
KeyOf(user, key_option) ==
  CASE key_option = "ID" -> user.pk
    [] key_option = "EMAIL" -> user.email
    [] key_option = "ORIGINAL_USERNAME" -> user.username

\* search: the loop from user i on. st carries context, used_usernames
\* (bound only when unique_names is true) and the exception raised.
RECURSIVE SearchFrom(_, _, _, _, _)
SearchFrom(users, key_option, unique_names, i, st) ==
  IF st.error # "" \/ i > Len(users) THEN st
  ELSE LET first == BeforeAt(users[i].email)
           username == IF unique_names /\ first \in st.used_usernames
                       THEN next_username(first, st.used_usernames)
                       ELSE first
       IN IF ~st.bound
          THEN [ st EXCEPT !.error = "UnboundLocalError" ]
          ELSE SearchFrom(users, key_option, unique_names, i + 1,
                 [ st EXCEPT !.used_usernames = @ \cup { username },
                             !.context = Append(@, [ key |-> KeyOf(users[i], key_option),
                                                     value |-> username ]) ])

\* InferUsernameFromEmail(users, key_option, unique_names).search()
search(users, key_option, unique_names) ==
  SearchFrom(users, key_option, unique_names, 1,
             [ error |-> "", context |-> << >>, bound |-> unique_names,
               used_usernames |-> {} ])

(* --------------------------- initial states --------------------------- *)
Scoped(pk, project_id) == [ pk |-> pk, project_id |-> project_id ]

EmptyDb == Dict([ m \in Models |-> {} ])

\* A site with two projects. p2status is the status of the second project;
\* extras adds a group membership and an allocation user that lie outside
\* the project's own members and resources.
SiteA(p2status, extras) ==
  [ EmptyDb EXCEPT
    ![UserM] = {
      [ pk |-> 1, username |-> "alice", is_superuser |-> FALSE, groups |-> {1} ],
      [ pk |-> 2, username |-> "bob", is_superuser |-> FALSE, groups |-> {} ],
      [ pk |-> 3, username |-> "carol", is_superuser |-> FALSE,
        groups |-> IF extras THEN {2} ELSE {} ],
      [ pk |-> 4, username |-> "root", is_superuser |-> TRUE, groups |-> {} ] },
    ![GroupM] = { [ pk |-> 1, name |-> "staff" ], [ pk |-> 2, name |-> "hpc" ] },
    ![ProfileM] = {
      [ pk |-> 1, user_id |-> 1, is_pi |-> TRUE ],
      [ pk |-> 2, user_id |-> 2, is_pi |-> TRUE ],
      [ pk |-> 3, user_id |-> 3, is_pi |-> FALSE ],
      [ pk |-> 4, user_id |-> 4, is_pi |-> FALSE ] },
    ![ProjectM] = {
      [ pk |-> 1, pi_id |-> 1, status |-> "Active", title |-> "t1", description |-> "d1" ],
      [ pk |-> 2, pi_id |-> 2, status |-> p2status, title |-> "t2", description |-> "d2" ] },
    ![ProjectUserM] = {
      [ pk |-> 1, user_id |-> 1, project_id |-> 1, role |-> "Manager",
        status |-> "Active", enable_notifications |-> TRUE ],
      [ pk |-> 2, user_id |-> 2, project_id |-> 1, role |-> "Manager",
        status |-> "Active", enable_notifications |-> TRUE ],
      [ pk |-> 3, user_id |-> 3, project_id |-> 1, role |-> "User",
        status |-> "Active", enable_notifications |-> TRUE ],
      [ pk |-> 4, user_id |-> 2, project_id |-> 2, role |-> "Manager",
        status |-> "Active", enable_notifications |-> TRUE ],
      [ pk |-> 5, user_id |-> 1, project_id |-> 2, role |-> "User",
        status |-> "Active", enable_notifications |-> FALSE ],
      [ pk |-> 6, user_id |-> 3, project_id |-> 2, role |-> "User",
        status |-> "Removed", enable_notifications |-> TRUE ] },
    ![ResourceM] = {
      [ pk |-> 1, name |-> "cluster", parent_resource_id |-> NoPk,
        allowed_groups |-> {1}, allowed_users |-> {}, linked_resources |-> {} ],
      [ pk |-> 2, name |-> "scratch", parent_resource_id |-> 1,
        allowed_groups |-> {}, allowed_users |-> {1}, linked_resources |-> {} ] },
    ![AllocationM] = {
      [ pk |-> 1, project_id |-> 1, status |-> "Active", end_date |-> 0, resources |-> {1} ],
      [ pk |-> 2, project_id |-> 1, status |-> "New", end_date |-> 0, resources |-> {1} ],
      [ pk |-> 3, project_id |-> 2,
        status |-> IF p2status = "Archived" THEN "Expired" ELSE "Active",
        end_date |-> 0, resources |-> {1} ] },
    ![AllocationUserM] =
      { [ pk |-> 1, allocation_id |-> 1, user_id |-> 1, status |-> "Active" ],
        [ pk |-> 2, allocation_id |-> 1, user_id |-> 3, status |-> "Active" ],
        [ pk |-> 3, allocation_id |-> 3, user_id |-> 2, status |-> "Active" ] }
      \cup (IF extras
            THEN { [ pk |-> 4, allocation_id |-> 1, user_id |-> 4, status |-> "Active" ] }
            ELSE {}),
    ![AllocAttrM] = { [ pk |-> 1, allocation_id |-> 1 ] },
    ![AllocChangeM] = { [ pk |-> 1, allocation_id |-> 3 ] },
    ![AdminNoteM] = { [ pk |-> 1, allocation_id |-> 1, author_id |-> 2 ] },
    ![UserNoteM] = { [ pk |-> 1, allocation_id |-> 1, author_id |-> 1 ] },
    ![GrantM] = { Scoped(1, 1), Scoped(2, 2) },
    ![PublicationM] = { Scoped(1, 1) },
    ![AdminCommentM] = { Scoped(1, 1) },
    ![UserMessageM] = { Scoped(1, 2) },
    ![ReviewM] = { Scoped(1, 1) },
    ![ResearchOutputM] = { Scoped(1, 2) } ]

\* Another site: one PI, who is also the only member of the only project,
\* and a resource of its own.
SiteB ==
  [ EmptyDb EXCEPT
    ![UserM] = { [ pk |-> 1, username |-> "dave", is_superuser |-> FALSE, groups |-> {} ] },
    ![ProfileM] = { [ pk |-> 1, user_id |-> 1, is_pi |-> TRUE ] },
    ![ProjectM] = { [ pk |-> 1, pi_id |-> 1, status |-> "New", title |-> "t1",
                      description |-> "d1" ] },
    ![ProjectUserM] = { [ pk |-> 1, user_id |-> 1, project_id |-> 1, role |-> "Manager",
                          status |-> "Active", enable_notifications |-> TRUE ] },
    ![ResourceM] = { [ pk |-> 1, name |-> "tape", parent_resource_id |-> NoPk,
                       allowed_groups |-> {}, allowed_users |-> {},
                       linked_resources |-> {} ] } ]

Sites == { SiteA("New", FALSE), SiteA("Archived", TRUE), SiteB }

\* Project files a user may hold: documents exported at some site.
Uploads ==
  { ExportDocument(SiteA("New", FALSE), 1), ExportDocument(SiteA("New", TRUE), 1),
    ExportDocument(SiteA("New", FALSE), 2), ExportDocument(SiteB, 1) }

Titles == { "t3" }

\* What a request posts: the ticked projects or usernames of a formset and
\* the fields of the form.
Form(projects, users, title, description, role, allocations) ==
  [ projects |-> projects, users |-> users, title |-> title,
    description |-> description, role |-> role, allocations |-> allocations,
    method |-> "POST", member |-> NoPk, checked |-> "", enable_notifications |-> FALSE ]

NoForm == Form({}, {}, "", "", "", {})

\* Email addresses: local parts that coincide, that end in digits, with
\* leading zeros, made of digits only, empty, and an address without '@'.
Emails ==
  { << "a", "@", "x" >>, << "a", "@", "y" >>, << "a", "0", "@", "x" >>,
    << "a", "1", "@", "x" >>, << "a", "9", "@", "x" >>, << "a", "0", "9", "@", "x" >>,
    << "9", "@", "x" >>, << "@", "x" >>, << "a" >> }

KeyOptions == { "ID", "ORIGINAL_USERNAME", "EMAIL" }

\* The sequences of users of length n: the user at position i has pk i.
UserLists(n) ==
  { List([ i \in 1..n |-> [ pk |-> i, username |-> << "u", Digit[i + 1] >>, email |-> es[i] ] ])
    : es \in [ 1..n -> Emails ] }

\* The utility as constructed, before search() is called.
Infer(users, key_option, unique_names) ==
  [ users |-> users, key_option |-> key_option, unique_names |-> unique_names,
    called |-> FALSE, error |-> "", context |-> << >> ]

NoInfer == Infer(<< >>, "ID", FALSE)

Init ==
  /\ db \in Sites
  /\ prev = db
  /\ now = 1
  /\ form = NoForm
  /\ resp = Response("", Anonymous, NoPk, "", "", NoDoc)
  /\ imp = NoImport
  /\ nreq = 0
  /\ infer = NoInfer

(* ------------------------------ requests ------------------------------ *)
Requesters == { Anonymous } \cup Pks(db[UserM])

ProjectIds == Pks(db[ProjectM])

\* What every request does besides its handler: f is what it posted, d the
\* database it leaves, r its response and i the account of an import.
Served(f, d, r, i) ==
  /\ nreq < MaxRequests
  /\ nreq' = nreq + 1
  /\ now' = now + 1
  /\ prev' = db
  /\ form' = f
  /\ db' = d
  /\ resp' = r
  /\ imp' = i
  /\ infer' = infer

\* POST project/<pk>/archive
Archive ==
  \E u \in Requesters, p \in ProjectIds :
    LET gate == MixinRefusal("archive", u, p, ManagerTest(db, u, p))
    IN IF gate.kind # "pass" THEN Served(NoForm, db, gate, NoImport)
       ELSE Served(NoForm, archive_project(db, Get(db, ProjectM, p), now),
                   Redirect("archive", u, p, "project-detail", "", ""), NoImport)

\* POST project/merge
Merge ==
  \E u \in Requesters, selected \in SUBSET Pks(Range(get_proj_list(db))), title \in Titles :
    LET gate == MixinRefusal("merge", u, NoPk, IsSuperuser(db, u) \/ IsPI(db, u))
        posted == Form(selected, {}, title, "d3", "", {})
    IN IF gate.kind # "pass" THEN Served(posted, db, gate, NoImport)
       ELSE Served(posted, MergePost(db, u, selected, title, "d3", now),
                   Redirect("merge", u, NoPk, "project-list", "", ""), NoImport)

\* GET project/<pk>/export
Export ==
  \E u \in Requesters, p \in ProjectIds :
    Served(NoForm, db, ExportDispatch(db, u, p), NoImport)

\* The import answers with a redirect; an exception it does not catch is
\* an error page.
ImportServed(u, r) ==
  Served(NoForm, r.db,
         IF r.imp.error = "" THEN Redirect("import", u, NoPk, "project-list", "", "")
         ELSE Response("import", u, NoPk, "error", "", NoDoc),
         r.imp)

\* POST project/import with a project file
Import ==
  \E u \in Requesters, doc \in Uploads :
    IF IsSuperuser(db, u) \/ IsPI(db, u)
    THEN ImportServed(u, ImportPost(db, doc))
    ELSE Served(NoForm, db, MixinRefusal("import", u, NoPk, FALSE), NoImport)

\* POST project/<pk>/update
Update ==
  \E u \in Requesters, p \in ProjectIds, title \in Titles :
    LET r == UpdateDispatch(db, u, p, title, "d3")
    IN Served(Form({}, {}, title, "d3", "", {}), r.db, r.resp, NoImport)

\* GET project/<pk>/add-users-search and POST .../add-users-search-results
AddUsersSearch ==
  \E u \in Requesters, p \in ProjectIds :
    Served(NoForm, db, AddUsersSearchDispatch(db, u, p), NoImport)

\* POST project/<pk>/add-users
AddUsers ==
  \E u \in Requesters, p \in ProjectIds :
    \E selected \in { S \in SUBSET AddUserMatches(db, p) : Cardinality(S) <= MaxSelected },
       allocs \in { {}, { a.pk : a \in { x \in db[AllocationM] : x.project_id = p } } } :
      \E roles \in [ selected -> {"User", "Manager"} ] :
        LET r == AddUsersDispatch(db, u, p, selected, roles, allocs)
        IN Served(Form({}, selected, "", "", roles, allocs), r.db, r.resp, NoImport)

\* POST project/<pk>/remove-users
RemoveUsers ==
  \E u \in Requesters, p \in ProjectIds :
    \E selected \in SUBSET get_users_to_remove(db, u, p) :
      LET r == RemoveUsersDispatch(db, u, p, selected)
      IN Served(Form({}, selected, "", "", "", {}), r.db, r.resp, NoImport)

\* POST project/<pk>/user-detail/<project_user_pk>
UserDetail ==
  \E u \in Requesters, p \in ProjectIds, role \in {"User", "Manager"}, notify \in BOOLEAN :
    \* a membership of the project, or a pk that names none
    \E m \in { r.pk : r \in { x \in db[ProjectUserM] : x.project_id = p } }
                \cup { NextPk(db, ProjectUserM) } :
      LET r == UserDetailPost(db, u, p, m, role, notify)
      IN Served([ NoForm EXCEPT !.member = m, !.role = role, !.enable_notifications = notify ],
                r.db, r.resp, NoImport)

\* GET or POST project/project-user-update-email-notification
EmailNotification ==
  \E u \in Requesters, method \in {"GET", "POST"}, checked \in {"true", "false", ""} :
    \E m \in Pks(db[ProjectUserM]) \cup { NextPk(db, ProjectUserM) } :
      \* a GET carries no POST data
      /\ method = "GET" => checked = ""
      /\ LET r == project_update_email_notification(db, u, method, m, checked)
         IN Served([ NoForm EXCEPT !.method = method, !.member = m, !.checked = checked ],
                   r.db, r.resp, NoImport)

Next ==
  \/ Archive
  \/ Merge
  \/ Export
  \/ Import
  \/ Update
  \/ AddUsersSearch
  \/ AddUsers
  \/ RemoveUsers
  \/ UserDetail
  \/ EmailNotification

Spec == Init /\ [][Next]_vars

\* Archiving and merging alone.
MergeNext ==
  \/ Archive
  \/ Merge

MergeSpec == Init /\ [][MergeNext]_vars

\* The requests on one project: those that look at its status first, and
\* archiving.
GateNext ==
  \/ Archive
  \/ Export
  \/ Update
  \/ AddUsersSearch
  \/ AddUsers
  \/ RemoveUsers

GateSpec == Init /\ [][GateNext]_vars

\* Adding and removing members.
RosterNext ==
  \/ AddUsers
  \/ RemoveUsers

RosterSpec == Init /\ [][RosterNext]_vars

\* InferUsernameFromEmail on its own: the utility is constructed with any
\* users, key option and unique_names, and search() is called once.
InferInit ==
  /\ db = EmptyDb
  /\ prev = db
  /\ now = 1
  /\ form = NoForm
  /\ resp = Response("", Anonymous, NoPk, "", "", NoDoc)
  /\ imp = NoImport
  /\ nreq = 0
  /\ \E n \in 0..MaxUsers, key_option \in KeyOptions, unique_names \in BOOLEAN :
        \E users \in UserLists(n) : infer = Infer(users, key_option, unique_names)

InferSearch ==
  /\ ~infer.called
  /\ LET r == search(infer.users, infer.key_option, infer.unique_names)
     IN infer' = [ infer EXCEPT !.called = TRUE, !.error = r.error, !.context = r.context ]
  /\ UNCHANGED << db, prev, now, form, resp, imp, nreq >>

InferNext == InferSearch

InferSpec == InferInit /\ [][InferNext]_vars

\* Export and import alone.
TransferNext ==
  \/ Export
  \/ Import

TransferSpec == Init /\ [][TransferNext]_vars

\* The email-notification endpoint alone.
NotifyNext == EmailNotification

NotifySpec == Init /\ [][NotifyNext]_vars

\* The requests that write memberships and allocation users.
MemberNext ==
  \/ AddUsers
  \/ RemoveUsers
  \/ UserDetail
  \/ EmailNotification

MemberSpec == Init /\ [][MemberNext]_vars

(* ------------------------------- claims ------------------------------- *)
\* The objects of a document, and its objects of one model.
DocObjects(doc) == UNION { Range(doc[i]) : i \in 1..Len(doc) }

DocPks(doc, m) == { o.pk : o \in { x \in DocObjects(doc) : x.model = m } }

\* The request just served was view, and it got past the mixins.
Handled(view) == resp.view = view /\ resp.kind \notin {"login", "forbidden"}

\* C1: the export returns the JSON project document only to a superuser,
\* the project's PI or an Active Manager of the project; nobody else,
\* signed in or not, gets project data.
C1_ExportOnlyToManagers ==
  (resp.view = "export" /\ resp.doc # NoDoc)
    => ExportTestFunc(prev, resp.user, resp.pk)

\* C1: a requester without a session holds the document of a project.
C1_AnonymousHoldsDocument ==
  /\ resp.view = "export"
  /\ resp.user = Anonymous
  /\ resp.kind = "json"
  /\ \E o \in DocObjects(resp.doc) : o.model = ProjectM /\ o.pk = resp.pk

\* The references the import translates, as <<model, field, target, many>>.
TranslatedRefs ==
  { << ProjectM, "pi_id", UserM, FALSE >>,
    << ProjectUserM, "user_id", UserM, FALSE >>,
    << AllocationUserM, "user_id", UserM, FALSE >>,
    << AdminNoteM, "author_id", UserM, FALSE >>,
    << UserNoteM, "author_id", UserM, FALSE >>,
    << UserM, "groups", GroupM, TRUE >>,
    << AllocationM, "resources", ResourceM, TRUE >>,
    << ResourceM, "allowed_users", UserM, TRUE >>,
    << ResourceM, "allowed_groups", GroupM, TRUE >> }

\* The pks an object of a document refers to through one of these fields.
RefPks(o, ref) ==
  IF o.model # ref[1] THEN {}
  ELSE IF ref[4] THEN o.fields[ref[2]]
  ELSE { o.fields[ref[2]] } \ { NoPk }

Closed(doc) ==
  \A o \in DocObjects(doc), ref \in TranslatedRefs :
    RefPks(o, ref) \subseteq DocPks(doc, ref[3])

\* C3: the exported document is referentially closed: it holds every
\* record one of its records refers to through a field the import
\* translates.
C3_ExportClosed ==
  (resp.view = "export" /\ resp.kind = "json") => Closed(resp.doc)

\* C3: an exported user belongs to a group the document does not hold.
C3_GroupLeftOut ==
  /\ resp.view = "export"
  /\ resp.kind = "json"
  /\ \E o \in DocObjects(resp.doc) :
        o.model = UserM /\ ~(o.fields.groups \subseteq DocPks(resp.doc, GroupM))

\* The views that look at the project's status before anything else.
GatedViews == { "update", "add-users-search", "add-users", "remove-users", "export" }

\* C10: for a project that is neither Active nor New, a request to update
\* it, to search for or add users, to remove users or to export it
\* redirects to the project detail page with an error message, changes no
\* record and returns no document.
C10_ArchivedRefused ==
  (/\ resp.view \in GatedViews
   /\ Get(prev, ProjectM, resp.pk).status \notin {"Active", "New"})
    => /\ resp.kind = "redirect"
       /\ resp.to = "project-detail"
       /\ resp.level = "error"
       /\ resp.msg # ""
       /\ db = prev
       /\ resp.doc = NoDoc

\* C10: a manager's add-users post on an archived project has been refused.
C10_ManagerRefused ==
  /\ resp.view = "add-users"
  /\ Get(prev, ProjectM, resp.pk).status = "Archived"
  /\ ManagerTest(prev, resp.user, resp.pk)
  /\ form.users # {}
  /\ resp.level = "error"

\* A merge that got past the mixins with a selection that is not empty.
Merged == Handled("merge") /\ form.projects # {}

\* The project a merge has created.
MergedPk == NextPk(prev, ProjectM)

\* Moving the record to the merged project would have broken a uniqueness
\* constraint: a record that is there has the same unique fields.
DuplicateIn(m, r) ==
  /\ UniqueTogether(m) # {}
  /\ \E o \in db[m] :
        /\ o.pk # r.pk
        /\ o.project_id = MergedPk
        /\ \A f \in UniqueTogether(m) \ {"project_id"} : o[f] = r[f]

\* C7: after a merge of a selection S that is not empty, no record of the
\* eight models is attached to a project of S: each one that was is now
\* attached to the merged project, or is deleted as a duplicate; the
\* records of the projects outside S are untouched.
C7_MergeMovesRecords ==
  Merged =>
    \A m \in Range(MergeOrder) :
      /\ \A r \in db[m] : r.project_id \notin form.projects
      /\ \A r \in prev[m] :
            IF r.project_id \in form.projects
            THEN \/ [ r EXCEPT !.project_id = MergedPk ] \in db[m]
                 \/ r.pk \notin Pks(db[m]) /\ DuplicateIn(m, r)
            ELSE r \in db[m]

\* C7: a merge of two projects has moved a member and deleted the
\* membership the same user had in the other project.
C7_MovedAndDeleted ==
  /\ Merged
  /\ Cardinality(form.projects) = 2
  /\ \E r \in prev[ProjectUserM] :
        r.project_id \in form.projects /\ r.pk \notin Pks(db[ProjectUserM])
  /\ \E r \in db[AllocationM] : r.project_id = MergedPk

\* C8: a merge with a selection S that is not empty creates exactly one
\* project: its PI is the requester, its status that of the first selected
\* project, its title and description those of the request; every project
\* of S is Archived when the request completes.
C8_MergeCreatesOne ==
  Merged =>
    /\ Pks(db[ProjectM]) \ Pks(prev[ProjectM]) = { MergedPk }
    /\ Pks(prev[ProjectM]) \subseteq Pks(db[ProjectM])
    /\ Get(db, ProjectM, MergedPk) =
         [ pk |-> MergedPk, pi_id |-> resp.user,
           status |-> SelectSeq(get_proj_list(prev),
                                LAMBDA r : r.pk \in form.projects)[1].status,
           title |-> form.title, description |-> form.description ]
    /\ \A p \in form.projects : Get(db, ProjectM, p).status = "Archived"

\* C8: two projects of different status have been merged by a requester
\* who is the PI of neither.
C8_MergedTwoStatuses ==
  /\ Merged
  /\ { r.status : r \in { x \in prev[ProjectM] : x.pk \in form.projects } }
       = { "Active", "New" }
  /\ \A r \in prev[ProjectM] : r.pi_id # resp.user
  /\ Exists(db, ProjectM, MergedPk)

\* The allocation as archive_project leaves it at time t.
Archived(a, p, t) ==
  IF a.project_id = p /\ a.status = "Active"
  THEN [ a EXCEPT !.status = "Expired", !.end_date = t ]
  ELSE a

\* C9: archive_project(P) sets P's status to Archived and every Active
\* allocation of P to Expired with the time of archiving as end_date; the
\* other allocations are unchanged, so archiving an archived project
\* changes no allocation.
C9_ArchiveProject ==
  Handled("archive") =>
    /\ Get(db, ProjectM, resp.pk) =
         [ Get(prev, ProjectM, resp.pk) EXCEPT !.status = "Archived" ]
    /\ db[AllocationM] = { Archived(a, resp.pk, now - 1) : a \in prev[AllocationM] }
    /\ Get(prev, ProjectM, resp.pk).status = "Archived"
         => db[AllocationM] = prev[AllocationM]

\* C9: archiving has expired an Active allocation of the project and left
\* a New one of the same project as it was.
C9_ExpiredOneKeptOne ==
  /\ Handled("archive")
  /\ \E a \in prev[AllocationM] :
        /\ a.project_id = resp.pk /\ a.status = "Active"
        /\ [ a EXCEPT !.status = "Expired", !.end_date = now - 1 ] \in db[AllocationM]
  /\ \E a \in prev[AllocationM] :
        a.project_id = resp.pk /\ a.status = "New" /\ a \in db[AllocationM]

\* C9: an archived project has been archived again.
C9_ArchivedAgain ==
  /\ Handled("archive")
  /\ Get(prev, ProjectM, resp.pk).status = "Archived"
  /\ \E a \in db[AllocationM] : a.project_id = resp.pk

\* An import that ran; one that ran to its end.
Imported == resp.view = "import" /\ imp.ran

ImportFinished == Imported /\ imp.error = ""

\* The pk the import gave to an object of the document (NoPk when the
\* translation table has no entry for it).
NewPk(m, pk) ==
  IF m \in DOMAIN imp.table /\ pk \in DOMAIN imp.table[m] THEN imp.table[m][pk] ELSE NoPk

\* The record the import left for an object of the document.
Created(o) == Get(db, o.model, NewPk(o.model, o.pk))

IsCreated(o) ==
  /\ NewPk(o.model, o.pk) # NoPk
  /\ Exists(db, o.model, NewPk(o.model, o.pk))

\* The references of the record left for o mirror those of o under the
\* translation table.
Mirrors(o) ==
  /\ \A fk \in ForeignKeys(o.model) :
        Created(o)[fk[1]] =
          IF o.fields[fk[1]] = NoPk THEN NoPk ELSE NewPk(fk[2], o.fields[fk[1]])
  /\ \A i \in 1..Len(ManyToMany(o.model)) :
        Created(o)[ManyToMany(o.model)[i][1]] =
          { NewPk(ManyToMany(o.model)[i][2], x) : x \in o.fields[ManyToMany(o.model)[i][1]] }

\* The database holds no user, group or resource named like one of the
\* document.
Fresh(d, doc) ==
  \A o \in DocObjects(doc) :
    \A f \in UniqueFields(o.model) \cap {"username", "name"} :
      \A r \in d[o.model] : r[f] # o.fields[f]

\* C2: importing an exported document into a database that holds none of
\* its records ends without error and creates exactly one record per
\* exported record, whose references mirror the originals' under the pk
\* translation table.
C2_RoundTrip ==
  (Imported /\ Fresh(prev, imp.doc)) =>
    /\ imp.error = ""
    /\ \A o \in DocObjects(imp.doc) :
          /\ IsCreated(o)
          /\ ~Exists(prev, o.model, NewPk(o.model, o.pk))
          /\ Mirrors(o)
    /\ \A m \in Models :
          Cardinality(db[m]) = Cardinality(prev[m]) + Cardinality(DocPks(imp.doc, m))

\* C2: a document has been imported to the end into a database that
\* holds none of its records, and its project is not there.
C2_ProjectLost ==
  /\ ImportFinished
  /\ Fresh(prev, imp.doc)
  /\ \E o \in DocObjects(imp.doc) : o.model = ProjectM /\ ~IsCreated(o)

\* C4: after an import has finished, every record of the document that
\* was not matched to an existing record is in the database, also when
\* the document lists it before a record it refers to.
C4_AllPersisted ==
  ImportFinished =>
    \A o \in DocObjects(imp.doc) :
      o.pk \notin imp.dups[o.model] => IsCreated(o)

\* C4: the save of a record listed before the user it refers to raised,
\* the user was saved later, and the import finished without the record.
C4_ForwardReferenceLost ==
  /\ ImportFinished
  /\ \E i, j \in 1..Len(imp.log) :
        /\ i < j
        /\ imp.log[i].raised /\ ~imp.log[i].stored
        /\ imp.log[j].model = UserM /\ imp.log[j].stored
        /\ ~Exists(db, imp.log[i].model, imp.log[i].pk)

\* The existing records an imported object matches: the same value on
\* some unique field other than id.
Matches(d, o) ==
  IF o.model \in duplicate_model_keys THEN {}
  ELSE { e \in d[o.model] : _same_obj_exists(o.model, e, Deserialize(o).object) }

\* The object r of the document refers to the object o through field.
RefersTo(r, field, o) ==
  /\ \E fk \in ForeignKeys(r.model) : fk[1] = field /\ fk[2] = o.model
  /\ r.fields[field] = o.pk

\* C5: when an imported object of a model other than project user and
\* allocation user has the value of an existing record on some unique
\* field other than id, no record is created for it, the translation
\* table maps its pk to that record's, and the imported records that
\* referred to it refer to that record after the import.
C5_Dedup ==
  ImportFinished =>
    /\ \A m \in Models :
          Cardinality(Pks(db[m]) \ Pks(prev[m])) <=
            Cardinality({ o \in DocObjects(imp.doc) :
                            o.model = m /\ Matches(prev, o) = {} })
    /\ \A o \in DocObjects(imp.doc) :
          Matches(prev, o) # {} =>
            /\ NewPk(o.model, o.pk) \in Pks(Matches(prev, o))
            /\ \A r \in DocObjects(imp.doc) :
                  \A fk \in ForeignKeys(r.model) :
                    (RefersTo(r, fk[1], o) /\ IsCreated(r) /\ Matches(prev, r) = {})
                      => Created(r)[fk[1]] = NewPk(o.model, o.pk)

\* C5: a membership of the document referred to a user who exists under
\* another pk, and the membership the import saved names another user.
C5_MemberOfAnotherUser ==
  /\ ImportFinished
  /\ \E o, r \in DocObjects(imp.doc) :
        /\ o.model = UserM /\ r.model = ProjectUserM
        /\ Matches(prev, o) # {}
        /\ NewPk(UserM, o.pk) # o.pk
        /\ RefersTo(r, "user_id", o)
        /\ IsCreated(r)
        /\ Get(db, UserM, Created(r).user_id).username # o.fields.username

\* The save of the project raised IntegrityError in the save loop.
ProjectSaveFailed ==
  \E i \in 1..Len(imp.log) : imp.log[i].model = ProjectM /\ imp.log[i].raised

\* C6: when the save of the imported project raises IntegrityError in the
\* save loop, the import goes on and the project is saved again exactly
\* once, after the other records are saved and the set-aside resource
\* references reassigned.
C6_ProjectSavedAgain ==
  (ImportFinished /\ ProjectSaveFailed) => imp.resaves = 1

\* C6: the save of the project raised, the import went on to its end, and
\* the project was never saved again.
C6_NoSecondSave ==
  /\ ImportFinished
  /\ ProjectSaveFailed
  /\ ~imp.resave_proj
  /\ imp.resaves = 0
  /\ \E i \in 1..Len(imp.log) : imp.log[i].model = UserM /\ imp.log[i].stored

\* The memberships of d that belong to the PI of their project.
PIMemberships(d) ==
  { r \in d[ProjectUserM] : r.user_id = Get(d, ProjectM, r.project_id).pi_id }

MemberViews == { "user-detail", "email-notification", "add-users", "remove-users" }

\* C11: no request to the user-detail, email-notification, add-users or
\* remove-users handlers changes the role or the email-notification option
\* of a membership that belongs to the project's PI.
C11_PIMembershipFixed ==
  resp.view \in MemberViews =>
    \A r \in PIMemberships(prev) :
      \A s \in db[ProjectUserM] :
        s.pk = r.pk => /\ s.role = r.role
                       /\ s.enable_notifications = r.enable_notifications

\* C11: the email-notification endpoint answered 200 and the
\* notification option of the PI's own membership is no longer what it was.
C11_PISwitchedOff ==
  /\ resp.view = "email-notification"
  /\ resp.status = 200
  /\ \E r \in PIMemberships(prev) :
        /\ r.pk = resp.pk
        /\ Get(db, ProjectUserM, r.pk).enable_notifications # r.enable_notifications

\* The requester may switch the option of membership r: the project's PI,
\* an Active Manager of the project, the member themself or a superuser.
Authorised(d, u, r) ==
  \/ u = Get(d, ProjectM, r.project_id).pi_id
  \/ \E x \in d[ProjectUserM] :
        /\ x.project_id = r.project_id /\ x.user_id = u
        /\ x.role = "Manager" /\ x.status = "Active"
  \/ u = r.user_id
  \/ \E x \in d[UserM] : x.pk = u /\ x.is_superuser

\* The database differs from the one before the request exactly in the
\* notification option of membership pk, which is now flag.
OnlyFlagSet(pk, flag) ==
  /\ \A m \in Models \ { ProjectUserM } : db[m] = prev[m]
  /\ db[ProjectUserM] =
       { IF r.pk = pk THEN [ r EXCEPT !.enable_notifications = flag ] ELSE r
         : r \in prev[ProjectUserM] }

\* What the endpoint owes a request that reached its body: 400 to a
\* non-POST, 403 to an unauthorised POST, 200 and the flag set to a POST
\* with checked 'true' or 'false', 400 to any other checked value.
NotificationContract ==
  IF form.method # "POST" THEN resp.status = 400 /\ db = prev
  ELSE IF ~Authorised(prev, resp.user, Get(prev, ProjectUserM, resp.pk))
  THEN resp.status = 403 /\ db = prev
  ELSE IF form.checked \in {"true", "false"}
  THEN resp.status = 200 /\ OnlyFlagSet(resp.pk, form.checked = "true")
  ELSE resp.status = 400 /\ db = prev

\* C12 as stated: every request to project_update_email_notification is
\* answered by that contract: the flag changes only for an authorised POST
\* with checked 'true' or 'false' (status 200), a non-POST or another
\* checked value yields 400, an unauthorised requester 403.
C12_EveryRequest ==
  resp.view = "email-notification" =>
    /\ Exists(prev, ProjectUserM, resp.pk) => NotificationContract
    /\ ~Exists(prev, ProjectUserM, resp.pk) => (resp.status \in {400, 403} /\ db = prev)

\* C12, amended: the contract holds for a signed-in requester and an
\* existing membership; a request without a session is redirected to the
\* login page and a POST that names no membership yields 404, both
\* leaving every flag unchanged.
C12_SignedInRequest ==
  resp.view = "email-notification" =>
    IF resp.user = Anonymous THEN resp.status = 302 /\ resp.kind = "login" /\ db = prev
    ELSE IF form.method # "POST" THEN resp.status = 400 /\ db = prev
    ELSE IF ~Exists(prev, ProjectUserM, resp.pk) THEN resp.status = 404 /\ db = prev
    ELSE NotificationContract

\* C12: an authorised POST with checked 'false' switched off an option
\* that was on.
C12_FlagSwitchedOff ==
  /\ resp.view = "email-notification"
  /\ resp.status = 200
  /\ form.checked = "false"
  /\ Get(prev, ProjectUserM, resp.pk).enable_notifications
  /\ ~Get(db, ProjectUserM, resp.pk).enable_notifications

\* The user called name.
Named(d, name) == (CHOOSE r \in d[UserM] : r.username = name).pk

MembershipsOf(d, p, u) == { r \in d[ProjectUserM] : r.project_id = p /\ r.user_id = u }

AllocationUsersOf(d, a, u) == { r \in d[AllocationUserM] : r.allocation_id = a /\ r.user_id = u }

\* How often the signal was sent for the allocation user pk.
Sent(signal, pk) ==
  Cardinality({ i \in 1..Len(resp.signals) : resp.signals[i] = << signal, pk >> })

AddUsersDone == resp.view = "add-users" /\ resp.kind = "redirect" /\ resp.level = "success"

\* C13: after a valid add-users submission every selected user has
\* exactly one membership in the project, Active and with the role of the
\* form, and exactly one Active allocation user in each selected
\* allocation; a record that was there before is the one kept, no other is
\* created, and allocation_activate_user is sent once per selected user
\* and selected allocation.
C13_AddUsers ==
  AddUsersDone =>
    /\ \A name \in form.users :
          /\ Cardinality(MembershipsOf(db, resp.pk, Named(db, name))) = 1
          /\ \A r \in MembershipsOf(db, resp.pk, Named(db, name)) :
                /\ r.status = "Active"
                /\ r.role = form.role[name]
                /\ \A o \in MembershipsOf(prev, resp.pk, Named(db, name)) : o.pk = r.pk
          /\ \A a \in form.allocations :
                /\ Cardinality(AllocationUsersOf(db, a, Named(db, name))) = 1
                /\ \A x \in AllocationUsersOf(db, a, Named(db, name)) :
                      /\ x.status = "Active"
                      /\ \A o \in AllocationUsersOf(prev, a, Named(db, name)) : o.pk = x.pk
                      /\ Sent("allocation_activate_user", x.pk) = 1
    /\ Len(resp.signals) = Cardinality(form.users) * Cardinality(form.allocations)
    /\ Cardinality(db[ProjectUserM]) = Cardinality(prev[ProjectUserM]) +
         Cardinality({ name \in form.users : MembershipsOf(prev, resp.pk, Named(db, name)) = {} })
    /\ Cardinality(db[AllocationUserM]) = Cardinality(prev[AllocationUserM]) +
         Cardinality({ na \in form.users \X form.allocations :
                         AllocationUsersOf(prev, na[2], Named(db, na[1])) = {} })

\* C13: two users were added at once to allocations of the project; one of
\* them had a Removed membership and a Removed allocation user, the other
\* had neither.
C13_ReactivatedAndCreated ==
  /\ AddUsersDone
  /\ \E n1, n2 \in form.users :
        /\ \E o \in MembershipsOf(prev, resp.pk, Named(db, n1)) : o.status = "Removed"
        /\ \E a \in form.allocations :
              \E o \in AllocationUsersOf(prev, a, Named(db, n1)) : o.status = "Removed"
        /\ MembershipsOf(prev, resp.pk, Named(db, n2)) = {}
        /\ \E a \in form.allocations : AllocationUsersOf(prev, a, Named(db, n2)) = {}

RemoveUsersDone ==
  resp.view = "remove-users" /\ resp.kind = "redirect" /\ resp.level = "success"

\* The users ticked in the form.
Ticked == { Named(prev, name) : name \in form.users }

\* The allocation users the claim says a removal changes: those of a
\* ticked user that are Active and belong to an allocation of the project
\* in status Active, New or Renewal Requested.
ToRemove ==
  { x \in prev[AllocationUserM] :
      /\ x.user_id \in Ticked
      /\ x.status = "Active"
      /\ \E a \in prev[AllocationM] :
            /\ a.pk = x.allocation_id
            /\ a.project_id = resp.pk
            /\ a.status \in {"Active", "New", "Renewal Requested"} }

\* C14: a valid remove-users submission sets the membership of each ticked
\* user to Removed, sets to Removed exactly the Active allocation users of
\* those users in the project's Active, New or Renewal Requested
\* allocations, sends allocation_remove_user once for each of them, and
\* leaves every other membership and allocation user as it was.
C14_RemoveUsers ==
  RemoveUsersDone =>
    /\ db[ProjectUserM] =
         { IF r.project_id = resp.pk /\ r.user_id \in Ticked
           THEN [ r EXCEPT !.status = "Removed" ] ELSE r : r \in prev[ProjectUserM] }
    /\ db[AllocationUserM] =
         { IF x \in ToRemove THEN [ x EXCEPT !.status = "Removed" ] ELSE x
           : x \in prev[AllocationUserM] }
    /\ \A x \in ToRemove : Sent("allocation_remove_user", x.pk) = 1
    /\ Len(resp.signals) = Cardinality(ToRemove)

\* C14: two members were removed at once; an allocation user of one was
\* set to Removed, and an Active allocation user of the other, in another
\* project's allocation, was left alone.
C14_RemovedHereKeptThere ==
  /\ RemoveUsersDone
  /\ Cardinality(Ticked) = 2
  /\ ToRemove # {}
  /\ \E x \in db[AllocationUserM] :
        /\ x.user_id \in Ticked
        /\ x.status = "Active"
        /\ x \in prev[AllocationUserM]

\* search() returned one entry per user, in input order, under the key
\* the key option names.
OneEntryPerUser ==
  /\ infer.error = ""
  /\ Len(infer.context) = Len(infer.users)
  /\ \A i \in 1..Len(infer.users) :
        infer.context[i].key = KeyOf(infer.users[i], infer.key_option)

\* C15: with unique_names true, search returns one entry per input user,
\* in input order, and the inferred usernames are pairwise distinct, also
\* when local parts coincide or end in digits.
C15_UniqueNames ==
  (infer.called /\ infer.unique_names) =>
    /\ OneEntryPerUser
    /\ \A i, j \in 1..Len(infer.context) :
          i # j => infer.context[i].value # infer.context[j].value

\* C15: three users: the local part of the first ends in a digit, the
\* other two share a local part whose first candidate is the first
\* user's name, and the third got a name that counts on.
C15_CountedPast ==
  /\ infer.called
  /\ infer.unique_names
  /\ Len(infer.users) = 3
  /\ BeforeAt(infer.users[1].email) = << "a", "0" >>
  /\ BeforeAt(infer.users[2].email) = << "a" >>
  /\ BeforeAt(infer.users[3].email) = << "a" >>
  /\ infer.context[3].value = << "a", "1" >>

\* C16: search completes for either value of unique_names and each key
\* option, with one entry per user from the chosen key to the inferred
\* username; with unique_names false that username is the part of the
\* email before the first '@'.
C16_SearchCompletes ==
  infer.called =>
    /\ OneEntryPerUser
    /\ ~infer.unique_names =>
          \A i \in 1..Len(infer.users) :
            infer.context[i].value = BeforeAt(infer.users[i].email)

\* C16: search was called with unique_names false on one user or more and
\* ended in an exception instead of a result.
C16_UnboundLocal ==
  /\ infer.called
  /\ ~infer.unique_names
  /\ infer.users # << >>
  /\ infer.error = "UnboundLocalError"
  /\ infer.context = << >>

\* The objects of the document of model m that match no existing record.
Unmatched(m) ==
  { o \in DocObjects(imp.doc) : o.model = m /\ Matches(prev, o) = {} }

\* The deserialised object the import holds for the i-th object of the
\* member of the document at position j.
Held(j, i) == Objs(imp.do_dict, imp.doc[j][1].model)[i]

\* C17: the pk-assignment step gives every imported object that matches
\* no existing record a pk that no existing record of its model has and
\* that no other imported object of its model is given, sets it on the
\* object, and records it in the translation table under the imported pk.
C17_FreshPks ==
  Imported =>
    /\ \A m \in Models :
          \A o \in Unmatched(m) :
            /\ m \in DOMAIN imp.table /\ o.pk \in DOMAIN imp.table[m]
            /\ NewPk(m, o.pk) \notin Pks(prev[m])
            /\ \A x \in DocObjects(imp.doc) :
                  (x.model = m /\ x.pk # o.pk) => NewPk(m, x.pk) # NewPk(m, o.pk)
    /\ \A j \in 1..Len(imp.doc) :
          \A i \in 1..Len(imp.doc[j]) :
            imp.doc[j][i] \in Unmatched(imp.doc[j][i].model)
              => Held(j, i).object.pk = NewPk(imp.doc[j][i].model, imp.doc[j][i].pk)

\* C17: an import into a database that already held records of a model
\* gave new pks to two objects of that model, while another object of the
\* document was matched to an existing record.
C17_TwoNewBesideExisting ==
  /\ Imported
  /\ \E m \in Models :
        /\ prev[m] # {}
        /\ \E o1, o2 \in Unmatched(m) :
              /\ o1.pk # o2.pk
              /\ NewPk(m, o1.pk) # o1.pk
              /\ NewPk(m, o2.pk) # o2.pk
  /\ \E o \in DocObjects(imp.doc) : Matches(prev, o) # {}

\* The references the claim lists as rewritten, as <<model, field,
\* target, many>>.
Rewritten ==
  { << ProjectM, "pi_id", UserM, FALSE >>,
    << ProfileM, "user_id", UserM, FALSE >>,
    << AllocationUserM, "user_id", UserM, FALSE >>,
    << AllocationUserM, "allocation_id", AllocationM, FALSE >>,
    << AllocChangeM, "allocation_id", AllocationM, FALSE >>,
    << AllocAttrM, "allocation_id", AllocationM, FALSE >>,
    << AdminNoteM, "allocation_id", AllocationM, FALSE >>,
    << UserNoteM, "allocation_id", AllocationM, FALSE >>,
    << AdminNoteM, "author_id", UserM, FALSE >>,
    << UserNoteM, "author_id", UserM, FALSE >>,
    << UserM, "groups", GroupM, TRUE >>,
    << ResourceM, "allowed_users", UserM, TRUE >>,
    << ResourceM, "allowed_groups", GroupM, TRUE >>,
    << AllocationM, "resources", ResourceM, TRUE >> }
  \cup { << ProjectIdModels[i], "project_id", ProjectM, FALSE >> : i \in 1..Len(ProjectIdModels) }

\* The held object has, in the field of ref, the translation-table image
\* of what the document's object o had there.
HoldsImage(held, o, ref) ==
  IF ref[4]
  THEN held.m2m_data[ref[2]] = { NewPk(ref[3], x) : x \in o.fields[ref[2]] }
  ELSE held.object[ref[2]] = NewPk(ref[3], o.fields[ref[2]])

FieldsTranslated ==
  \A j \in 1..Len(imp.doc) :
    \A i \in 1..Len(imp.doc[j]) :
      \A ref \in Rewritten :
        ref[1] = imp.doc[j][i].model => HoldsImage(Held(j, i), imp.doc[j][i], ref)

\* C18: the field-matching step raises no lookup error for an exported
\* document, and after it every rewritten foreign key and many-to-many
\* list of every imported object holds the translation-table image of its
\* imported value.
C18_FieldsTranslated ==
  Imported => (imp.error # "KeyError" /\ FieldsTranslated)

\* C18: the import of an exported document ended in a KeyError of the
\* field-matching step: a user of the document belongs to a group the
\* document does not hold.
C18_LookupError ==
  /\ Imported
  /\ imp.error = "KeyError"
  /\ \E site \in Sites : imp.doc = ExportDocument(site, 1)
  /\ \E o \in DocObjects(imp.doc) :
        o.model = UserM /\ ~(o.fields.groups \subseteq DocPks(imp.doc, GroupM))

====
